---- MODULE Spec2Model ----
(***************************************************************************)
(* Model of skills/multi-model-reviewer/scripts/multi_model_review.py:     *)
(* the orchestrator's review() run (dispatch of the enabled reviewers,     *)
(* asyncio.gather, status print, arbiter call with consensus fallback,     *)
(* report assembly) and the pure helpers it calls; and of the exit codes   *)
(* of skills/analyze-frame/scripts/validate_spec.py.                       *)
(***************************************************************************)
EXTENDS Integers, Sequences, FiniteSets, TLC

VARIABLES
    config,        \* MultiModelReviewOrchestrator.config (models, consensus)
    reviewers,     \* MultiModelReviewOrchestrator.reviewers: seq of [name, enabled]
    arbiter,       \* MultiModelReviewOrchestrator.arbiter: [name, enabled]
    pc,            \* position of review(): init, gather, arbitrate, done, raised
    tasks,         \* names of the dispatched reviewers, in dispatch order
    running,       \* indices of tasks whose review() has not returned yet
    slots,         \* asyncio.gather's result list, one slot per task
    reordered,     \* some task returned while an earlier task was still running
    timed_out,     \* names of the reviewers whose call hit its timeout
    all_findings,  \* the list returned by asyncio.gather
    arbiter_out,   \* how the arbiter's subprocess ended in filter_false_positives
    issues,        \* the list returned by filter_false_positives
    report,        \* the ReviewReport returned by review()
    now,           \* what datetime.now().isoformat() gives during this run
    validator      \* a run of validate_spec.py: its inputs, position and result

vars == <<config, reviewers, arbiter, pc, tasks, running, slots, reordered,
          timed_out, all_findings, arbiter_out, issues, report, now, validator>>

-----------------------------------------------------------------------------
(* Bounds of the model *)

\* most models a configuration enables; the configurations drawn enable the
\* first n models, n up to this bound
MaxReviewers == 2
\* most raw issues all reviewers of one run return together
MaxRawFindings == 3
\* most entries in each group of an arbiter verdict
MaxVerdictEntries == 1

-----------------------------------------------------------------------------
(* Python values *)

\* Optional[str]: <<>> is None / an absent key, <<s>> is the string s
None == <<>>
Some(s) == <<s>>

\* str(x) as an f-string renders an Optional[str]
PyStr(opt) == IF opt = None THEN "None" ELSE opt[1]

\* dict.get(key, default) on an optional entry
GetOr(opt, default) == IF opt = None THEN default ELSE opt[1]

DigitChars == <<"0", "1", "2", "3", "4", "5", "6", "7", "8", "9">>

RECURSIVE Decimal(_)
Decimal(n) ==
    IF n < 10 THEN DigitChars[n + 1]
    ELSE Decimal(n \div 10) \o DigitChars[(n % 10) + 1]

\* the format spec :03d
Format03d(n) ==
    LET d == Decimal(n) IN
    IF Len(d) >= 3 THEN d
    ELSE IF Len(d) = 2 THEN "0" \o d
    ELSE "00" \o d

\* f"ISSUE-{issue_id:03d}"
IssueId(issue_id) == "ISSUE-" \o Format03d(issue_id)

-----------------------------------------------------------------------------
(* Enumerations and dataclasses *)

Severity == [ERROR |-> "error", WARNING |-> "warning", INFO |-> "info"]

IssueTypeValues ==
    {"spec_program_mismatch", "program_test_gap", "test_spec_mismatch",
     "metadata_mismatch"}

\* IssueType(value) raises ValueError unless value is one of the enum's values
IssueTypeRaises(value) == value \notin IssueTypeValues

ReviewIssue(id, severity, issue_type, description, detected_by, suggested_fix, confidence) ==
    [id |-> id, severity |-> severity, issue_type |-> issue_type,
     description |-> description, detected_by |-> detected_by,
     suggested_fix |-> suggested_fix, confidence |-> confidence]

\* the reviewers _init_reviewers can construct, in construction order
ModelNames == <<"chatgpt", "gemini", "codex", "qwen", "claude">>

-----------------------------------------------------------------------------
(* What the external tools can answer *)

\* one entry of the "issues" list a reviewer's JSON answer carries
RawIssue(type, location, description, suggested_fix) ==
    [type |-> type, location |-> location, description |-> description,
     suggested_fix |-> suggested_fix]

RawIssues ==
    { RawIssue(Some("spec_program_mismatch"), Some("Order#total"),
               Some("total differs"), Some("recompute total")),
      RawIssue(Some("program_test_gap"), Some("Order#cancel"),
               Some("cancel untested"), None),
      RawIssue(Some("style_nit"), Some("Order#total"),
               Some("naming"), None) }

RECURSIVE SeqsUpTo(_, _)
SeqsUpTo(S, n) ==
    IF n = 0 THEN {<<>>}
    ELSE LET shorter == SeqsUpTo(S, n - 1) IN
         shorter \cup {Append(q, x) : q \in {r \in shorter : Len(r) = n - 1}, x \in S}

\* the dict a reviewer's review() returns on success: the parsed JSON answer
\* is an object with an "issues" list, or some other JSON value
OkResult(name, json, issue_list) ==
    [model |-> name, findings |-> [json |-> json, issues |-> issue_list]]

\* the dict a reviewer's review() returns from its except clause
ErrResult(name, reason) == [model |-> name, error |-> reason]

\* str(e) of the asyncio.TimeoutError that asyncio.wait_for raises
TimeoutReason == ""

\* str(e) of the exceptions a reviewer call can end with
ErrorReasons == {"Command failed", TimeoutReason}

\* the reviewers that run a CLI under asyncio.wait_for (chatgpt is an HTTP
\* call whose timeout raises an exception of the HTTP library)
CliModels == {"gemini", "codex", "qwen", "claude"}

\* what review() returns when asyncio.wait_for gives up on the subprocess:
\* the except clause stores str(e)
TimeoutResult(name) == ErrResult(name, TimeoutReason)

\* the JSON values json.loads can hand a reviewer: the chat completion is
\* requested with response_format json_object, the command line tools and the
\* local service can print any JSON value
JsonShapes(name) == IF name = "chatgpt" THEN {"object"} ELSE {"object", "array"}

\* every dict review() of the reviewer called name can return with at most
\* budget raw issues
ReviewResults(name, budget) ==
    {OkResult(name, "object", q) : q \in SeqsUpTo(RawIssues, budget)}
    \cup {OkResult(name, j, <<>>) : j \in JsonShapes(name)}
    \cup {ErrResult(name, e) : e \in ErrorReasons}

-----------------------------------------------------------------------------
(* ClaudeReviewer._consensus_filter *)

\* "error" in finding
HasError(finding) == "error" \in DOMAIN finding

\* finding.get("findings", {}).get("issues", []) raises AttributeError when the
\* parsed answer is not a JSON object
GetIssuesRaises(finding) ==
    /\ ~HasError(finding)
    /\ finding.findings.json /= "object"

GetIssues(finding) == finding.findings.issues

\* key = f"{issue.get('type')}:{issue.get('location')}"
IssueKey(issue) == PyStr(issue.type) \o ":" \o PyStr(issue.location)

\* the two dicts of the first loop; order is the dicts' insertion order
EmptyVotes == [order |-> <<>>, issue_votes |-> <<>>, issue_details |-> <<>>]

\* a vote that puts a new key before the keys seen so far
CastVoteNewestFirst(acc, model, issue) ==
    LET key == IssueKey(issue)
        seen == key \in DOMAIN acc.issue_votes
        votes0 == IF seen THEN acc.issue_votes
                  ELSE acc.issue_votes @@ (key :> <<>>)
    IN [order |-> IF seen THEN acc.order ELSE <<key>> \o acc.order,
        issue_votes |-> [votes0 EXCEPT ![key] = Append(@, model)],
        issue_details |-> IF seen THEN acc.issue_details
                          ELSE acc.issue_details @@ (key :> issue)]

CastVote(acc, model, issue) ==
    LET key == IssueKey(issue)
        seen == key \in DOMAIN acc.issue_votes
        votes0 == IF seen THEN acc.issue_votes
                  ELSE acc.issue_votes @@ (key :> <<>>)
    IN [order |-> IF seen THEN acc.order ELSE Append(acc.order, key),
        issue_votes |-> [votes0 EXCEPT ![key] = Append(@, model)],
        issue_details |-> IF seen THEN acc.issue_details
                          ELSE acc.issue_details @@ (key :> issue)]

RECURSIVE ScanIssues(_, _, _, _)
ScanIssues(acc, model, issue_list, j) ==
    IF j > Len(issue_list) THEN acc
    ELSE ScanIssues(CastVote(acc, model, issue_list[j]), model, issue_list, j + 1)

RECURSIVE ScanFindings(_, _, _)
ScanFindings(acc, findings, i) ==
    IF i > Len(findings) THEN acc
    ELSE IF HasError(findings[i]) THEN ScanFindings(acc, findings, i + 1)
    ELSE ScanFindings(ScanIssues(acc, findings[i].model, GetIssues(findings[i]), 1),
                      findings, i + 1)

\* the vote counts the second loop compares len(voters) with
ErrorVotes == 3
WarningVotes == 2

\* a classification that grades every reported key "low"
ClassifyLow(votes) ==
    IF votes >= ErrorVotes
    THEN [keep |-> TRUE, severity |-> Severity.ERROR, confidence |-> "low"]
    ELSE IF votes = WarningVotes
    THEN [keep |-> TRUE, severity |-> Severity.WARNING, confidence |-> "low"]
    ELSE [keep |-> FALSE, severity |-> Severity.INFO, confidence |-> ""]

\* the if / elif / else of the second loop: what len(voters) votes make of a key
Classify(votes) ==
    IF votes >= ErrorVotes
    THEN [keep |-> TRUE, severity |-> Severity.ERROR, confidence |-> "high"]
    ELSE IF votes = WarningVotes
    THEN [keep |-> TRUE, severity |-> Severity.WARNING, confidence |-> "medium"]
    ELSE [keep |-> FALSE, severity |-> Severity.INFO, confidence |-> ""]

\* the second loop: one ReviewIssue per key with enough votes; the result is
\* [raised, issues], raised when IssueType(...) raises ValueError
RECURSIVE EmitIssues(_, _, _, _)
EmitIssues(acc, k, issue_id, out) ==
    IF k > Len(acc.order) THEN [raised |-> FALSE, issues |-> out]
    ELSE
      LET key == acc.order[k]
          voters == acc.issue_votes[key]
          details == acc.issue_details[key]
          class == Classify(Len(voters))
          type == GetOr(details.type, "spec_program_mismatch")
      IN
      IF ~class.keep THEN EmitIssues(acc, k + 1, issue_id, out)
      ELSE IF IssueTypeRaises(type) THEN [raised |-> TRUE, issues |-> <<>>]
      ELSE EmitIssues(acc, k + 1, issue_id + 1,
              Append(out, ReviewIssue(IssueId(issue_id), class.severity, type,
                                      GetOr(details.description, ""), voters,
                                      None, class.confidence)))

consensus_filter(findings) ==
    IF \E i \in 1..Len(findings) : GetIssuesRaises(findings[i])
    THEN [raised |-> TRUE, issues |-> <<>>]
    ELSE EmitIssues(ScanFindings(EmptyVotes, findings, 1), 1, 1, <<>>)

-----------------------------------------------------------------------------
(* ClaudeReviewer._parse_arbiter_result and filter_false_positives *)

\* one entry of the verdict's "confirmed_issues" or "warnings" list
VerdictEntry(type, description, detected_by, suggested_fix) ==
    [type |-> type, description |-> description, detected_by |-> detected_by,
     suggested_fix |-> suggested_fix]

VerdictEntries ==
    { VerdictEntry(Some("spec_program_mismatch"), Some("total differs"),
                   <<"chatgpt", "gemini", "codex">>, Some("recompute total")),
      VerdictEntry(Some("style_nit"), Some("naming"), <<"qwen">>, None) }

\* the parsed JSON the arbiter's subprocess printed
Verdict(json, confirmed_issues, warnings) ==
    [json |-> json, confirmed_issues |-> confirmed_issues, warnings |-> warnings]

\* how the arbiter's subprocess can end: an exception before or in json.loads
\* (spawn failure, timeout, unparseable output), or some parsed JSON value
ArbiterOutcomes ==
    {[kind |-> "exception"]}
    \cup {[kind |-> "result", result |-> Verdict("array", <<>>, <<>>)]}
    \cup {[kind |-> "result", result |-> Verdict("object", c, w)] :
            c \in SeqsUpTo(VerdictEntries, MaxVerdictEntries),
            w \in SeqsUpTo(VerdictEntries, MaxVerdictEntries)}

\* one loop of _parse_arbiter_result: appends one ReviewIssue per item
RECURSIVE ParseItems(_, _, _, _, _, _)
ParseItems(items, k, issue_id, severity, with_fix, out) ==
    IF k > Len(items) THEN [raised |-> FALSE, issues |-> out]
    ELSE
      LET item == items[k]
          type == GetOr(item.type, "spec_program_mismatch")
      IN
      IF IssueTypeRaises(type) THEN [raised |-> TRUE, issues |-> <<>>]
      ELSE ParseItems(items, k + 1, issue_id + 1, severity, with_fix,
              Append(out, ReviewIssue(IssueId(issue_id), severity, type,
                                      GetOr(item.description, ""), item.detected_by,
                                      IF with_fix THEN item.suggested_fix ELSE None,
                                      IF severity = Severity.ERROR THEN "high"
                                      ELSE "medium")))

\* a parse that files the warnings as errors too
parse_arbiter_result_all_errors(result) ==
    IF result.json /= "object" THEN [raised |-> TRUE, issues |-> <<>>]
    ELSE
      LET confirmed == ParseItems(result.confirmed_issues, 1, 1, Severity.ERROR,
                                  TRUE, <<>>)
      IN
      IF confirmed.raised THEN confirmed
      ELSE ParseItems(result.warnings, 1, Len(confirmed.issues) + 1,
                      Severity.ERROR, FALSE, confirmed.issues)

\* a parse that numbers the warnings from 1 again
parse_arbiter_result_renumbered(result) ==
    IF result.json /= "object" THEN [raised |-> TRUE, issues |-> <<>>]
    ELSE
      LET confirmed == ParseItems(result.confirmed_issues, 1, 1, Severity.ERROR,
                                  TRUE, <<>>)
      IN
      IF confirmed.raised THEN confirmed
      ELSE ParseItems(result.warnings, 1, 1, Severity.WARNING, FALSE, confirmed.issues)

parse_arbiter_result(result) ==
    IF result.json /= "object" THEN [raised |-> TRUE, issues |-> <<>>]
    ELSE
      LET confirmed == ParseItems(result.confirmed_issues, 1, 1, Severity.ERROR,
                                  TRUE, <<>>)
      IN
      IF confirmed.raised THEN confirmed
      ELSE ParseItems(result.warnings, 1, Len(confirmed.issues) + 1,
                      Severity.WARNING, FALSE, confirmed.issues)

\* a fallback that keeps the issues built from the confirmed entries when the
\* parse fails at a later entry
filter_false_positives_partial(findings, outcome) ==
    IF outcome.kind = "exception" THEN consensus_filter(findings)
    ELSE LET parsed == parse_arbiter_result(outcome.result)
             fallback == consensus_filter(findings)
             confirmed == IF outcome.result.json = "object"
                          THEN ParseItems(outcome.result.confirmed_issues, 1, 1,
                                          Severity.ERROR, TRUE, <<>>)
                          ELSE [raised |-> TRUE, issues |-> <<>>]
         IN
         IF ~parsed.raised THEN parsed
         ELSE IF fallback.raised \/ confirmed.raised THEN fallback
         ELSE [raised |-> FALSE, issues |-> confirmed.issues \o fallback.issues]

\* try: run the arbiter and parse its verdict; except Exception: fall back
filter_false_positives(findings, outcome) ==
    IF outcome.kind = "exception" THEN consensus_filter(findings)
    ELSE LET parsed == parse_arbiter_result(outcome.result) IN
         IF parsed.raised THEN consensus_filter(findings) ELSE parsed

-----------------------------------------------------------------------------
(* MultiModelReviewOrchestrator *)

\* a count that ignores the severity asked for
CountAll(issue_list, severity) == Len(issue_list)

\* sum(1 for i in issues if i.severity == severity)
RECURSIVE CountSeverity(_, _)
CountSeverity(issue_list, severity) ==
    IF issue_list = <<>> THEN 0
    ELSE (IF Head(issue_list).severity = severity THEN 1 ELSE 0)
         + CountSeverity(Tail(issue_list), severity)

\* total_checks = len(self.reviewers) * 10
ChecksPerReviewer == 10

\* a report whose passed count is clamped at zero
BuildReportClamped(timestamp, reviewer_list, issue_list) ==
    LET total_checks == Len(reviewer_list) * ChecksPerReviewer
        warnings == CountSeverity(issue_list, Severity.WARNING)
        errors == CountSeverity(issue_list, Severity.ERROR)
        left == total_checks - warnings - errors
    IN [timestamp |-> timestamp,
        total_checks |-> total_checks,
        passed |-> IF left < 0 THEN 0 ELSE left,
        warnings |-> warnings,
        errors |-> errors,
        issues |-> issue_list]

\* step 6 of review(): the ReviewReport (spec_dir left out)
BuildReport(timestamp, reviewer_list, issue_list) ==
    LET total_checks == Len(reviewer_list) * ChecksPerReviewer
        warnings == CountSeverity(issue_list, Severity.WARNING)
        errors == CountSeverity(issue_list, Severity.ERROR)
    IN [timestamp |-> timestamp,
        total_checks |-> total_checks,
        passed |-> total_checks - warnings - errors,
        warnings |-> warnings,
        errors |-> errors,
        issues |-> issue_list]

\* the "consensus" section of the default configuration of _load_config
DefaultConsensus == [error_threshold |-> 3, warning_threshold |-> 2]

\* the "consensus" sections a configuration file can carry
ConsensusConfigs ==
    { DefaultConsensus,
      [error_threshold |-> 4, warning_threshold |-> 2],
      [error_threshold |-> 2, warning_threshold |-> 2] }

\* the "models" sections drawn: the first n models enabled, n up to most
ModelConfigs(most) == {{ModelNames[i] : i \in 1..n} : n \in 0..most}

\* _init_reviewers: one reviewer per configured model, in the fixed order;
\* available is the set of models whose availability probe succeeded
RECURSIVE init_reviewers(_, _, _)
init_reviewers(models, available, i) ==
    IF i > Len(ModelNames) THEN <<>>
    ELSE IF ModelNames[i] \in models
         THEN <<[name |-> ModelNames[i], enabled |-> ModelNames[i] \in available]>>
              \o init_reviewers(models, available, i + 1)
         ELSE init_reviewers(models, available, i + 1)

NoResult == [pending |-> TRUE]
NotValidating == [at |-> "off"]
NoReport == [none |-> TRUE]

\* the instants a run can happen at
Instants == {"2026-01-01T09:00:00", "2026-01-02T09:00:00"}
FirstInstant == "2026-01-01T09:00:00"

\* the state __init__ leaves, for the configuration loaded, the outcomes of
\* the arbiter's availability probe and the time of the run
Constructed(model_configs, consensus_configs, probes, instants) ==
    /\ config \in {[models |-> m, consensus |-> c] :
                      m \in model_configs, c \in consensus_configs}
    /\ \E available \in SUBSET config.models :
           reviewers = init_reviewers(config.models, available, 1)
    /\ arbiter \in {[name |-> "claude", enabled |-> e] : e \in probes}
    /\ now \in instants
    /\ validator = NotValidating
    /\ pc = "init"
    /\ tasks = <<>>
    /\ running = {}
    /\ slots = <<>>
    /\ reordered = FALSE
    /\ timed_out = {}
    /\ all_findings = <<>>
    /\ arbiter_out = NoResult
    /\ issues = <<>>
    /\ report = NoReport

\* constructed with the default consensus thresholds
Init ==
    Constructed(ModelConfigs(MaxReviewers), {DefaultConsensus}, BOOLEAN, {FirstInstant})

\* constructed from a configuration file that sets the consensus thresholds,
\* with one more model than the default runs have
InitConfigured ==
    Constructed(ModelConfigs(MaxReviewers + 1), ConsensusConfigs, BOOLEAN, {FirstInstant})

\* constructed at either instant, the arbiter's probe having succeeded
InitTimed ==
    Constructed(ModelConfigs(MaxReviewers), {DefaultConsensus}, {TRUE}, Instants)

\* a dispatch that starts every enabled reviewer twice
RECURSIVE EnabledNamesTwice(_)
EnabledNamesTwice(reviewer_list) ==
    IF reviewer_list = <<>> THEN <<>>
    ELSE (IF Head(reviewer_list).enabled
          THEN <<Head(reviewer_list).name, Head(reviewer_list).name>> ELSE <<>>)
         \o EnabledNamesTwice(Tail(reviewer_list))

\* a dispatch that ignores the enabled flag
AllNames(reviewer_list) == [k \in 1..Len(reviewer_list) |-> reviewer_list[k].name]

\* tasks = [reviewer.review(...) for reviewer in self.reviewers if reviewer.enabled]
RECURSIVE EnabledNames(_)
EnabledNames(reviewer_list) ==
    IF reviewer_list = <<>> THEN <<>>
    ELSE (IF Head(reviewer_list).enabled THEN <<Head(reviewer_list).name>> ELSE <<>>)
         \o EnabledNames(Tail(reviewer_list))

\* review() up to the await of asyncio.gather: every task is started
Dispatch ==
    /\ pc = "init"
    /\ tasks' = EnabledNames(reviewers)
    /\ running' = 1..Len(tasks')
    /\ slots' = [i \in 1..Len(tasks') |-> NoResult]
    /\ pc' = "gather"
    /\ UNCHANGED <<config, reviewers, arbiter, reordered, timed_out, all_findings,
                   arbiter_out, issues, report, now, validator>>

RECURSIVE RawCount(_, _)
RawCount(result_list, i) ==
    IF i > Len(result_list) THEN 0
    ELSE (IF "findings" \in DOMAIN result_list[i]
          THEN Len(result_list[i].findings.issues) ELSE 0)
         + RawCount(result_list, i + 1)

\* a gather that appended each result as its task finished
ResultSlotByCompletion(i, done) == done + 1

\* asyncio.gather keeps each task's result at the task's own position; done
\* is the number of tasks that returned before task i
ResultSlot(i, done) == i

\* the review() coroutine of task i returns its dict
AgentReturn(i) ==
    /\ pc = "gather"
    /\ i \in running
    /\ \E r \in ReviewResults(tasks[i], MaxRawFindings - RawCount(slots, 1)) :
           /\ slots' = [slots EXCEPT
                          ![ResultSlot(i, Len(tasks) - Cardinality(running))] = r]
           /\ timed_out' = IF tasks[i] \in CliModels /\ r = TimeoutResult(tasks[i])
                            THEN timed_out \cup {tasks[i]} ELSE timed_out
    /\ running' = running \ {i}
    /\ reordered' = (reordered \/ \E j \in running : j < i)
    /\ UNCHANGED <<config, reviewers, arbiter, pc, tasks, all_findings,
                   arbiter_out, issues, report, now, validator>>

\* a gather that returns while tasks are still running
CollectEarly ==
    /\ pc = "gather"
    /\ all_findings' = slots
    /\ pc' = "arbitrate"
    /\ UNCHANGED <<config, reviewers, arbiter, tasks, running, slots, reordered,
                   timed_out, arbiter_out, issues, report, now, validator>>

\* gather returns once every task has returned; step 4 prints each model's
\* status and raises where the issues of a result cannot be read
Collect ==
    /\ pc = "gather"
    /\ running = {}
    /\ all_findings' = slots
    /\ pc' = IF \E i \in 1..Len(slots) : GetIssuesRaises(slots[i])
             THEN "raised" ELSE "arbitrate"
    /\ UNCHANGED <<config, reviewers, arbiter, tasks, running, slots, reordered,
                   timed_out, arbiter_out, issues, report, now, validator>>

\* step 5 and 6: the arbiter's subprocess ends with outcome; the issues are
\* parsed from its verdict or come from the fallback; the report is built
Arbitrate(outcome) ==
    /\ pc = "arbitrate"
    /\ arbiter_out' = outcome
    /\ LET filtered == filter_false_positives(all_findings, outcome) IN
       IF filtered.raised
       THEN /\ pc' = "raised"
            /\ UNCHANGED <<issues, report>>
       ELSE /\ pc' = "done"
            /\ issues' = filtered.issues
            /\ report' = BuildReport(now, reviewers, filtered.issues)
    /\ UNCHANGED <<config, reviewers, arbiter, tasks, running, slots, reordered,
                   timed_out, all_findings, now, validator>>

Next ==
    \/ Dispatch
    \/ \E i \in running : AgentReturn(i)
    \/ Collect
    \/ \E outcome \in ArbiterOutcomes : Arbitrate(outcome)

Spec == Init /\ [][Next]_vars

SpecConfigured == InitConfigured /\ [][Next]_vars

SpecTimed == InitTimed /\ [][Next]_vars

\* every agent call and the arbiter call returns, fails or hits its timeout
\* (wait_for with 120 s and 180 s, the HTTP timeout of 60 s), and the event
\* loop runs review() on
SpecLive == Init /\ [][Next]_vars /\ WF_vars(Next)

-----------------------------------------------------------------------------
(* _consensus_filter alone, on findings lists with keys that are hard to tell apart *)

\* raw issues whose location is missing, "unknown" or "None", or whose type
\* or location holds the ":" that the key is joined with
FilterIssues ==
    { RawIssue(Some("spec_program_mismatch"), None, Some("no place given"), None),
      RawIssue(Some("spec_program_mismatch"), Some("unknown"), Some("place unknown"), None),
      RawIssue(Some("spec_program_mismatch"), Some("None"), Some("place None"),
               Some("name the place")),
      RawIssue(Some("spec_program_mismatch"), Some("Order:total"), Some("colon in place"), None),
      RawIssue(Some("spec_program_mismatch:Order"), Some("total"), Some("colon in type"), None) }

\* what one reviewer hands _consensus_filter: an error or a JSON object with issues
FilterResults(name, budget) ==
    {ErrResult(name, "Command failed")}
    \cup {OkResult(name, "object", l) : l \in SeqsUpTo(FilterIssues, budget)}

\* the all_findings lists of the first n reviewers with at most budget raw issues
RECURSIVE FindingsUpTo(_, _)
FindingsUpTo(n, budget) ==
    IF n = 0 THEN {<<>>}
    ELSE UNION {{Append(prefix, r) :
                    r \in FilterResults(ModelNames[n], budget - RawCount(prefix, 1))} :
                prefix \in FindingsUpTo(n - 1, budget)}

\* the variables no pure function reads or writes
Idle ==
    /\ config = [models |-> {}, consensus |-> DefaultConsensus]
    /\ reviewers = <<>>
    /\ arbiter = [name |-> "claude", enabled |-> TRUE]
    /\ now = FirstInstant
    /\ tasks = <<>>
    /\ running = {}
    /\ slots = <<>>
    /\ reordered = FALSE
    /\ timed_out = {}
    /\ report = NoReport

\* _consensus_filter is about to be called with all_findings
InitFilter ==
    /\ Idle
    /\ validator = NotValidating
    /\ pc = "filter"
    /\ all_findings \in UNION {FindingsUpTo(n, MaxRawFindings) : n \in 1..MaxReviewers}
    /\ arbiter_out = NoResult
    /\ issues = <<>>

\* the call of _consensus_filter
ApplyFilter ==
    /\ pc = "filter"
    /\ LET filtered == consensus_filter(all_findings) IN
           /\ pc' = IF filtered.raised THEN "raised" ELSE "filtered"
           /\ issues' = filtered.issues
    /\ UNCHANGED <<config, reviewers, arbiter, tasks, running, slots, reordered,
                   timed_out, all_findings, arbiter_out, report, now, validator>>

SpecFilter == InitFilter /\ [][ApplyFilter]_vars

-----------------------------------------------------------------------------
(* _consensus_filter alone, on findings lists long enough to hold reported *)
(* keys with a discarded key between them                                 *)

\* three keys; the first comes in two wordings, one with a fix and one without
OrderIssues ==
    { RawIssue(Some("spec_program_mismatch"), Some("Order#total"), Some("total differs"),
               Some("recompute total")),
      RawIssue(Some("spec_program_mismatch"), Some("Order#total"), Some("total is off"), None),
      RawIssue(Some("program_test_gap"), Some("Order#cancel"), Some("cancel untested"), None),
      RawIssue(Some("test_spec_mismatch"), Some("Order#ship"), Some("ship test differs"),
               Some("align the test")) }

\* the longest findings list of this specification
MaxOrderFindings == MaxRawFindings + 2

OrderResults(name, budget) ==
    {ErrResult(name, "Command failed")}
    \cup {OkResult(name, "object", l) : l \in SeqsUpTo(OrderIssues, budget)}

\* all_findings is prefix followed by the results of n more reviewers that
\* hold at most budget raw issues
RECURSIVE DrawFindings(_, _, _)
DrawFindings(n, budget, prefix) ==
    IF n = 0 THEN all_findings = prefix
    ELSE \E r \in OrderResults(ModelNames[Len(prefix) + 1], budget) :
             DrawFindings(n - 1, budget - RawCount(<<r>>, 1), Append(prefix, r))

\* _consensus_filter is about to be called with all_findings
InitOrder ==
    /\ Idle
    /\ validator = NotValidating
    /\ pc = "filter"
    /\ \E n \in 1..MaxReviewers : DrawFindings(n, MaxOrderFindings, <<>>)
    /\ arbiter_out = NoResult
    /\ issues = <<>>

SpecOrder == InitOrder /\ [][ApplyFilter]_vars

-----------------------------------------------------------------------------
(* _parse_arbiter_result alone, on verdicts with all three groups *)

\* verdict entries with and without type, description and fix
ParseEntries ==
    VerdictEntries
    \cup { VerdictEntry(None, Some("cancel untested"), <<"gemini", "qwen">>, Some("add a test")),
           VerdictEntry(Some("program_test_gap"), None, <<>>, None) }

\* a JSON object with the three lists the arbiter's prompt asks for
FullVerdict(confirmed_issues, warnings, discarded) ==
    [json |-> "object", confirmed_issues |-> confirmed_issues, warnings |-> warnings,
     discarded_as_false_positive |-> discarded]

\* _parse_arbiter_result is about to be called with arbiter_out.result
InitParse ==
    /\ Idle
    /\ validator = NotValidating
    /\ pc = "parse"
    /\ all_findings = <<>>
    /\ arbiter_out \in
         {[kind |-> "result", result |-> FullVerdict(c, w, d)] :
             c \in SeqsUpTo(ParseEntries, MaxVerdictEntries + 1),
             w \in SeqsUpTo(ParseEntries, MaxVerdictEntries + 1),
             d \in SeqsUpTo(ParseEntries, MaxVerdictEntries)}
    /\ issues = <<>>

\* the call of _parse_arbiter_result
ApplyParse ==
    /\ pc = "parse"
    /\ LET parsed == parse_arbiter_result(arbiter_out.result) IN
           /\ pc' = IF parsed.raised THEN "raised" ELSE "parsed"
           /\ issues' = parsed.issues
    /\ UNCHANGED <<config, reviewers, arbiter, tasks, running, slots, reordered,
                   timed_out, all_findings, arbiter_out, report, now, validator>>

SpecParse == InitParse /\ [][ApplyParse]_vars

-----------------------------------------------------------------------------
(* validate_spec.py: main(), SpecValidator.validate() and print_result() *)

\* the most errors, and the most warnings, the checks of a loaded frame.yaml add
MaxContentFindings == 3

\* what the command line and the file system hold when the script starts
ValidatorInputs ==
    {[argc |-> 1, spec_dir |-> d, frame_yaml |-> "missing",
      content_errors |-> 0, content_warnings |-> 0] :
        d \in {"missing", "file", "directory"}}
    \cup {[argc |-> 2, spec_dir |-> d, frame_yaml |-> "missing",
           content_errors |-> 0, content_warnings |-> 0] :
             d \in {"missing", "file", "directory"}}
    \cup {[argc |-> n, spec_dir |-> "directory", frame_yaml |-> f,
           content_errors |-> 0, content_warnings |-> 0] :
             n \in {1, 2}, f \in {"invalid", "empty"}}
    \cup {[argc |-> n, spec_dir |-> "directory", frame_yaml |-> "mapping",
           content_errors |-> e, content_warnings |-> w] :
             n \in {1, 2}, e \in 0..MaxContentFindings, w \in 0..MaxContentFindings}

\* the script is started: ValidationResult() is empty, nothing is loaded
InitValidate ==
    /\ Idle
    /\ pc = "off"
    /\ all_findings = <<>>
    /\ arbiter_out = NoResult
    /\ issues = <<>>
    /\ \E input \in ValidatorInputs :
           validator = [at |-> "main", input |-> input, errors |-> 0, warnings |-> 0,
                        frame_data |-> FALSE, exit_code |-> None]

Unreviewed ==
    UNCHANGED <<config, reviewers, arbiter, pc, tasks, running, slots, reordered,
                timed_out, all_findings, arbiter_out, issues, report, now>>

\* main(): without a spec_dir argument print the usage and sys.exit(2)
main ==
    /\ validator.at = "main"
    /\ validator' = IF validator.input.argc < 2
                    THEN [validator EXCEPT !.at = "exited", !.exit_code = Some(2)]
                    ELSE [validator EXCEPT !.at = "check_directory_exists"]
    /\ Unreviewed

\* validate(): _check_directory_exists, then return early unless is_valid
check_directory_exists ==
    /\ validator.at = "check_directory_exists"
    /\ validator' = IF validator.input.spec_dir /= "directory"
                    THEN [validator EXCEPT !.errors = @ + 1, !.at = "print_result"]
                    ELSE [validator EXCEPT !.at = "check_required_files"]
    /\ Unreviewed

\* _check_required_files: one error per required file that is missing
check_required_files ==
    /\ validator.at = "check_required_files"
    /\ validator' = [validator EXCEPT
                       !.errors = IF validator.input.frame_yaml = "missing"
                                  THEN @ + 1 ELSE @,
                       !.at = "load_frame_yaml"]
    /\ Unreviewed

\* _load_frame_yaml, and the test of self.frame_data that follows it
load_frame_yaml ==
    /\ validator.at = "load_frame_yaml"
    /\ LET f == validator.input.frame_yaml IN
       validator' = [validator EXCEPT
                       !.errors = IF f = "invalid" THEN @ + 1 ELSE @,
                       !.frame_data = (f = "mapping"),
                       !.at = IF f = "mapping" THEN "validate_frame" ELSE "print_result"]
    /\ Unreviewed

\* the seven _validate_* methods: each only adds errors and warnings
validate_frame ==
    /\ validator.at = "validate_frame"
    /\ validator' = [validator EXCEPT
                       !.errors = @ + validator.input.content_errors,
                       !.warnings = @ + validator.input.content_warnings,
                       !.at = "print_result"]
    /\ Unreviewed

\* print_result returns 0 if result.is_valid else 1, and main exits with it
print_result ==
    /\ validator.at = "print_result"
    /\ validator' = [validator EXCEPT
                       !.exit_code = Some(IF validator.errors = 0 THEN 0 ELSE 1),
                       !.at = "exited"]
    /\ Unreviewed

NextValidate ==
    \/ main
    \/ check_directory_exists
    \/ check_required_files
    \/ load_frame_yaml
    \/ validate_frame
    \/ print_result

SpecValidate == InitValidate /\ [][NextValidate]_vars

-----------------------------------------------------------------------------
(* Vocabulary of the properties *)

\* gather has returned: all_findings is the Dispatcher's output
Collected == pc \in {"arbitrate", "done", "raised"}

\* review() returned a report
Reported == pc = "done"

\* the issues of the run came from _consensus_filter
FallbackUsed ==
    /\ arbiter_out /= NoResult
    /\ \/ arbiter_out.kind = "exception"
       \/ parse_arbiter_result(arbiter_out.result).raised

\* the issues of the run came from the arbiter's verdict
ArbiterUsed == arbiter_out /= NoResult /\ ~FallbackUsed

OkIndices == {i \in 1..Len(all_findings) : ~HasError(all_findings[i])}
ErrIndices == {i \in 1..Len(all_findings) : HasError(all_findings[i])}

\* every successful answer is a JSON object with an issues list
WellFormed == \A i \in OkIndices : all_findings[i].findings.json = "object"

\* the Finding key of a raw issue: the pair (type, location)
FindingKey(issue) == <<issue.type, issue.location>>

RawOf(i) == all_findings[i].findings.issues

\* the positions in all_findings of the agents that reported key
Reporters(key) ==
    {i \in OkIndices : \E j \in 1..Len(RawOf(i)) : FindingKey(RawOf(i)[j]) = key}

ReportedKeys == {key \in {FindingKey(x) : x \in RawIssues} : Reporters(key) /= {}}

\* the names of a set of positions of all_findings, in Dispatcher order
RECURSIVE NamesOf(_, _)
NamesOf(indices, i) ==
    IF i > Len(all_findings) THEN <<>>
    ELSE (IF i \in indices THEN <<all_findings[i].model>> ELSE <<>>)
         \o NamesOf(indices, i + 1)

\* no agent returned the same key twice
NoDuplicates ==
    \A i \in OkIndices : \A j, k \in 1..Len(RawOf(i)) :
        FindingKey(RawOf(i)[j]) = FindingKey(RawOf(i)[k]) => j = k

\* the issues of the report that stand for key: the raw issues of the model
\* carry one description per key
IssuesFor(key) ==
    {n \in 1..Len(report.issues) :
        \E x \in RawIssues :
            /\ FindingKey(x) = key
            /\ report.issues[n].description = GetOr(x.description, "")}

ValidThresholds(c) ==
    /\ c.warning_threshold >= 1
    /\ c.error_threshold > c.warning_threshold

\* the positions of the enabled reviewers in self.reviewers
EnabledPositions == {k \in 1..Len(reviewers) : reviewers[k].enabled}

\* how many enabled reviewers stand at or before position k
EnabledRank(k) == Cardinality({j \in EnabledPositions : j <= k})

-----------------------------------------------------------------------------
(* Properties *)

\* C1: under the fallback rule with the thresholds 3 and 2, a key reported by
\* exactly three agents yields exactly one issue, an error whose detected_by
\* lists the three; a key reported by exactly two agents yields exactly one
\* issue, a warning; a key reported by one agent yields no issue.
C1_FallbackCounts ==
    (Reported /\ FallbackUsed) =>
        \A key \in ReportedKeys :
            LET names == NamesOf(Reporters(key), 1)
                for == IssuesFor(key)
            IN /\ Len(names) = 3 =>
                    /\ Cardinality(for) = 1
                    /\ \A n \in for : /\ report.issues[n].severity = Severity.ERROR
                                      /\ report.issues[n].detected_by = names
               /\ Len(names) = 2 =>
                    /\ Cardinality(for) = 1
                    /\ \A n \in for : report.issues[n].severity = Severity.WARNING
               /\ Len(names) = 1 => for = {}

\* C2: under the fallback rule a key reported by exactly one distinct agent
\* produces no issue, however many raw issues with that key the agent returned.
C2_SingleAgentDiscarded ==
    (Reported /\ FallbackUsed) =>
        \A key \in ReportedKeys :
            Cardinality(Reporters(key)) = 1 => IssuesFor(key) = {}

\* C3: in every report passed + warnings + errors equals total_checks.
C3_CountsSum ==
    Reported =>
        report.passed + report.warnings + report.errors = report.total_checks

C3_Witness ==
    /\ Reported
    /\ report.errors > 0
    /\ report.warnings > 0
    /\ report.passed > 0

\* C4: in every report passed is not negative.
C4_PassedNotNegative == Reported => report.passed >= 0

\* C5: in every report, on the arbiter path and on the fallback path, warnings
\* is the number of issues of severity warning and errors is the number of
\* issues of severity error.
C5_SeverityCounts ==
    Reported =>
        /\ report.warnings =
             Cardinality({n \in 1..Len(report.issues) :
                             report.issues[n].severity = "warning"})
        /\ report.errors =
             Cardinality({n \in 1..Len(report.issues) :
                             report.issues[n].severity = "error"})

C5_Witness ==
    /\ Reported
    /\ ArbiterUsed
    /\ report.errors = 1
    /\ report.warnings = 1
    /\ Len(report.issues) = 2

\* C6: for every valid configuration the fallback rule classifies a key as an
\* error exactly when the number of agents that reported it is at least the
\* configured error_threshold, and as a warning when that number equals the
\* configured warning_threshold (stated for runs in which no agent repeats a
\* key, so that votes and agents coincide).
C6_ConfiguredThresholds ==
    (Reported /\ FallbackUsed /\ NoDuplicates /\ ValidThresholds(config.consensus)) =>
        \A key \in ReportedKeys :
            LET count == Cardinality(Reporters(key)) IN
            /\ (\E n \in IssuesFor(key) : report.issues[n].severity = Severity.ERROR)
                   <=> count >= config.consensus.error_threshold
            /\ count = config.consensus.warning_threshold =>
                   \E n \in IssuesFor(key) :
                       report.issues[n].severity = Severity.WARNING

\* C7: when the configured thresholds violate error_threshold >
\* warning_threshold >= 1, no agent is dispatched and no report is produced.
C7_InvalidThresholdsAbort ==
    ~ValidThresholds(config.consensus) => (tasks = <<>> /\ report = NoReport)

\* C8: whatever the order in which the agent calls finish, the Dispatcher's
\* output holds exactly one result per enabled reviewer, and its i-th result
\* belongs to the i-th enabled reviewer in construction order.
C8_StableOrder ==
    Collected =>
        /\ Len(all_findings) = Cardinality(EnabledPositions)
        /\ \A k \in EnabledPositions :
               /\ all_findings[EnabledRank(k)] /= NoResult
               /\ all_findings[EnabledRank(k)].model = reviewers[k].name

C8_Witness ==
    /\ Collected
    /\ reordered
    /\ Len(all_findings) >= 2

\* C9: when some enabled agents fail and others succeed, the run completes with
\* a report, every agent's result is collected, total_checks is what the
\* configuration gives, and the findings used for consensus come only from the
\* agents that succeeded.
C9_PartialFailure ==
    (Collected /\ ErrIndices /= {} /\ OkIndices /= {}) =>
        /\ pc /= "raised"
        /\ Len(all_findings) = Cardinality(EnabledPositions)
        /\ Reported =>
             /\ report.total_checks = Len(reviewers) * ChecksPerReviewer
             /\ FallbackUsed =>
                  \A n \in 1..Len(report.issues) :
                      \A d \in 1..Len(report.issues[n].detected_by) :
                          \E i \in OkIndices :
                              all_findings[i].model = report.issues[n].detected_by[d]

\* C10: no run raises: for every combination of agent results and every
\* arbiter outcome review() returns a report (the code has no configuration
\* error to raise).
C10_NoUncaughtFault == pc /= "raised"

\* a key whose type string is present and is not a value of IssueType
UnknownType(key) == key[1] /= None /\ IssueTypeRaises(key[1][1])

\* C11: a raw finding whose type is not one of the four IssueType values is
\* not rejected: when the fallback rule reports its key (two or more agents
\* returned it), the run returns a report with an issue for the key whose
\* issue_type is spec_program_mismatch and whose confidence is low.
C11_UnknownTypeDefaults ==
    \A key \in ReportedKeys :
        (FallbackUsed /\ UnknownType(key) /\ Cardinality(Reporters(key)) >= 2)
        => /\ pc = "done"
           /\ \E n \in IssuesFor(key) :
                  /\ report.issues[n].issue_type = "spec_program_mismatch"
                  /\ report.issues[n].confidence = "low"

\* the (type, location) pairs a findings list of the filter's inputs can hold
FilterKeys == {FindingKey(x) : x \in FilterIssues}

\* the names detected_by lists
Voters(issue) == {issue.detected_by[d] : d \in 1..Len(issue.detected_by)}

\* the names of the agents that reported key
ReporterNames(key) == {all_findings[i].model : i \in Reporters(key)}

\* C12: raw findings are grouped into one Finding if and only if their type
\* strings are equal and their location strings are equal: the agents an
\* issue of the fallback rule names all reported one and the same
\* (type, location) pair, and the agents that reported the same pair are
\* named together, whatever characters the strings hold.
C12_GroupedByTypeAndLocation ==
    pc = "filtered" =>
        /\ \A n \in 1..Len(issues) :
               \E key \in FilterKeys : Voters(issues[n]) \subseteq ReporterNames(key)
        /\ \A key \in FilterKeys :
               Cardinality(Reporters(key)) >= 2
               => \E n \in 1..Len(issues) : ReporterNames(key) \subseteq Voters(issues[n])

\* C13: a raw finding without location is keyed with the location "unknown":
\* when one agent reports type T without location and another reports type T
\* with the location "unknown", the two corroborate each other and one issue
\* of the fallback rule names them both.
C13_MissingLocationIsUnknown ==
    pc = "filtered" =>
        \A key \in FilterKeys :
            LET unknown == <<key[1], Some("unknown")>> IN
            (/\ key[2] = None
             /\ Reporters(key) /= {}
             /\ Reporters(unknown) /= {}
             /\ Cardinality(Reporters(key) \cup Reporters(unknown)) >= 2)
            => \E n \in 1..Len(issues) :
                   ReporterNames(key) \cup ReporterNames(unknown) \subseteq Voters(issues[n])

\* C14: when the arbiter is disabled, the run never uses an arbiter verdict:
\* the issues of its report are those of the fallback rule applied to the
\* collected results.
C14_DisabledArbiterFallsBack ==
    (Reported /\ ~arbiter.enabled)
    => /\ FallbackUsed
       /\ report.issues = consensus_filter(all_findings).issues

\* the arbiter's call ended with an exception before a verdict was parsed
ArbiterErred == arbiter_out /= NoResult /\ arbiter_out.kind = "exception"

\* C15: when the arbiter's call errors (process failure, timeout, unparseable
\* output), the run is not aborted: it returns a report whose issues are
\* those of the fallback rule over the same agent results.
C15_ArbiterErrorFallsBack ==
    ArbiterErred
    => /\ pc = "done"
       /\ report.issues = consensus_filter(all_findings).issues

\* the verdict _parse_arbiter_result was called with
ParsedVerdict == arbiter_out.result

\* C16: on the primary path every entry of confirmed_issues becomes exactly
\* one issue with severity error and confidence high, every entry of warnings
\* exactly one issue with severity warning and confidence medium, and the
\* discarded entries produce no issue.
C16_VerdictMapping ==
    pc = "parsed" =>
        /\ Len(issues) = Len(ParsedVerdict.confirmed_issues) + Len(ParsedVerdict.warnings)
        /\ CountSeverity(issues, Severity.ERROR) = Len(ParsedVerdict.confirmed_issues)
        /\ CountSeverity(issues, Severity.WARNING) = Len(ParsedVerdict.warnings)
        /\ \A n \in 1..Len(issues) :
               /\ issues[n].severity = "error" => issues[n].confidence = "high"
               /\ issues[n].severity = "warning" => issues[n].confidence = "medium"

\* a verdict with entries in all three groups was parsed
C16_Witness ==
    /\ pc = "parsed"
    /\ Len(ParsedVerdict.confirmed_issues) >= 1
    /\ Len(ParsedVerdict.warnings) >= 1
    /\ Len(ParsedVerdict.discarded_as_false_positive) >= 1
    /\ Len(issues) = 2

\* the ids 1, 2, ... as the report prints them
IssueIds ==
    <<"ISSUE-001", "ISSUE-002", "ISSUE-003", "ISSUE-004", "ISSUE-005",
      "ISSUE-006", "ISSUE-007", "ISSUE-008", "ISSUE-009">>

\* issue stands for entry of the verdict
FromEntry(issue, entry) ==
    /\ issue.description = GetOr(entry.description, "")
    /\ issue.detected_by = entry.detected_by
    /\ issue.issue_type = GetOr(entry.type, "spec_program_mismatch")

\* C17: on the primary path the issue ids are the consecutive numbers 1..n
\* with no gaps and no repeats, given first to the confirmed entries and then
\* to the warnings, each group in the order the arbiter returned it.
C17_ConsecutiveIds ==
    pc = "parsed" =>
        LET confirmed == ParsedVerdict.confirmed_issues
            warnings == ParsedVerdict.warnings
        IN
        /\ Len(issues) = Len(confirmed) + Len(warnings)
        /\ \A n \in 1..Len(issues) : issues[n].id = IssueIds[n]
        /\ \A k \in 1..Len(confirmed) :
               issues[k].severity = "error" /\ FromEntry(issues[k], confirmed[k])
        /\ \A k \in 1..Len(warnings) :
               /\ issues[Len(confirmed) + k].severity = "warning"
               /\ FromEntry(issues[Len(confirmed) + k], warnings[k])

\* two different confirmed entries and two different warnings were parsed
C17_Witness ==
    /\ pc = "parsed"
    /\ Len(ParsedVerdict.confirmed_issues) = 2
    /\ Len(ParsedVerdict.warnings) = 2
    /\ ParsedVerdict.confirmed_issues[1] /= ParsedVerdict.confirmed_issues[2]
    /\ ParsedVerdict.warnings[1] /= ParsedVerdict.warnings[2]
    /\ issues[4].id = "ISSUE-004"

\* C18: under the fallback rule each issue of severity error has confidence
\* high and each issue of severity warning has confidence medium.
C18_FallbackConfidence ==
    (Reported /\ FallbackUsed) =>
        \A n \in 1..Len(report.issues) :
            /\ report.issues[n].severity \in {"error", "warning"}
            /\ report.issues[n].severity = "error" => report.issues[n].confidence = "high"
            /\ report.issues[n].severity = "warning" => report.issues[n].confidence = "medium"

\* the fallback rule reported an error
C18_Witness ==
    /\ Reported
    /\ FallbackUsed
    /\ \E n \in 1..Len(report.issues) :
           report.issues[n].severity = "error" /\ Len(report.issues[n].detected_by) = 3

\* the canned result of the agent called name, whenever its call returned
CannedOf(name) ==
    CHOOSE r \in {all_findings[i] : i \in 1..Len(all_findings)} : r.model = name

\* the canned results in the order the agents were constructed in
CannedFindings == [i \in 1..Len(tasks) |-> CannedOf(tasks[i])]

\* the report of the run that was given the same agents, the same canned
\* results and the same arbiter outcome, its agents returning in construction
\* order, at the first instant
ReferenceReport ==
    BuildReport(FirstInstant, reviewers,
                filter_false_positives(CannedFindings, arbiter_out).issues)

WithoutTimestamp(r) == [f \in DOMAIN r \ {"timestamp"} |-> r[f]]

\* C19: two runs given the same agents, the same canned agent results and
\* arbiter outcome and the same thresholds produce identical reports,
\* whatever order the agent calls complete in: every report equals the report
\* of the reference run on the same inputs.
C19_Determinism == Reported => report = ReferenceReport

\* C19, amended: the two reports are identical but for their timestamp: same
\* counts, same issues in the same order with the same ids.
C19_DeterminismButTimestamp ==
    Reported => WithoutTimestamp(report) = WithoutTimestamp(ReferenceReport)

\* a run at the second instant whose two agents returned out of order and
\* whose report has an issue naming both
C19_Witness ==
    /\ Reported
    /\ reordered
    /\ now /= FirstInstant
    /\ \E n \in 1..Len(report.issues) : report.issues[n].detected_by = <<"chatgpt", "gemini">>
    /\ FallbackUsed

\* C20: when the call of an enabled agent exceeds its timeout, the entry of
\* that agent is an Err whose reason is "timeout".
C20_TimeoutReason ==
    \A i \in 1..Len(slots) :
        (slots[i] /= NoResult /\ slots[i].model \in timed_out)
        => HasError(slots[i]) /\ slots[i].error = "timeout"

\* the file the validator needs is not there: no spec directory, or no frame.yaml
MissingFiles ==
    \/ validator.input.spec_dir /= "directory"
    \/ validator.input.frame_yaml = "missing"

\* C23: the validator exits with 2 for invalid arguments or missing files (a
\* spec directory that does not exist, a missing required file), with 1 when
\* validation errors are found and with 0 when validation finds no errors.
C23_ExitCodes ==
    validator.at = "exited" =>
        validator.exit_code =
            Some(IF validator.input.argc < 2 \/ MissingFiles THEN 2
                 ELSE IF validator.errors > 0 THEN 1
                 ELSE 0)

\* how many tasks were created for the reviewer called name
Invocations(name) == Cardinality({i \in 1..Len(tasks) : tasks[i] = name})

\* C21: in every run the review of each enabled agent is invoked exactly
\* once: once the tasks are created, every enabled reviewer has one task, no
\* task is added, and a task that returned (also with an error or after a
\* timeout) never runs again.
C21_InvokedOnce ==
    /\ [](pc \in {"gather", "arbitrate", "done", "raised"}
          => \A k \in EnabledPositions : Invocations(reviewers[k].name) = 1)
    /\ [][pc /= "init" => (tasks' = tasks /\ running' \subseteq running)]_vars

\* a run with two tasks, one of which timed out, returned its report
C21_Witness ==
    /\ Reported
    /\ Len(tasks) = 2
    /\ timed_out /= {}
    /\ running = {}

\* an answer that makes review() raise: a JSON array, or a type that is not an
\* IssueType
FaultyAnswer(finding) ==
    /\ ~HasError(finding)
    /\ \/ finding.findings.json /= "object"
       \/ \E j \in 1..Len(finding.findings.issues) :
              LET type == finding.findings.issues[j].type IN
              type /= None /\ IssueTypeRaises(type[1])

\* C22: an agent whose enabled flag is false is never dispatched: it has no
\* task, no entry in the collected results and no vote in an issue of the
\* fallback rule; and its absence does not make the run fail: a run that
\* raises holds a faulty answer of a dispatched agent.
C22_DisabledNeverDispatched ==
    /\ \A k \in 1..Len(reviewers) :
           ~reviewers[k].enabled =>
               /\ Invocations(reviewers[k].name) = 0
               /\ \A i \in 1..Len(slots) :
                      slots[i] /= NoResult => slots[i].model /= reviewers[k].name
               /\ \A i \in 1..Len(all_findings) :
                      all_findings[i].model /= reviewers[k].name
               /\ (Reported /\ FallbackUsed)
                  => \A n \in 1..Len(report.issues) :
                         reviewers[k].name \notin Voters(report.issues[n])
    /\ pc = "raised" => \E i \in 1..Len(all_findings) : FaultyAnswer(all_findings[i])

\* a run with a disabled and an enabled reviewer returned issues of the fallback
C22_Witness ==
    /\ Reported
    /\ FallbackUsed
    /\ \E k \in 1..Len(reviewers) : ~reviewers[k].enabled
    /\ EnabledPositions /= {}
    /\ Len(report.issues) >= 1

\* C27: arbitration never starts before every dispatched agent call has
\* resolved: when the arbiter is reached or has answered, no task is running
\* and all_findings holds an Ok or Err entry for every task.
C27_ArbitrationAfterAll ==
    (pc \in {"arbitrate", "done"} \/ arbiter_out /= NoResult)
    => /\ running = {}
       /\ Len(all_findings) = Len(tasks)
       /\ \A i \in 1..Len(all_findings) :
              /\ all_findings[i] /= NoResult
              /\ "error" \in DOMAIN all_findings[i] \/ "findings" \in DOMAIN all_findings[i]

\* the arbiter answered a run whose two agents returned out of order, one
\* with an error and one with an answer
C27_Witness ==
    /\ arbiter_out /= NoResult
    /\ Len(tasks) = 2
    /\ reordered
    /\ OkIndices /= {}
    /\ ErrIndices /= {}

\* the raw issues of the answers of all_findings, in scanning order
RECURSIVE FlatIssues(_)
FlatIssues(i) ==
    IF i > Len(all_findings) THEN <<>>
    ELSE (IF HasError(all_findings[i]) THEN <<>> ELSE RawOf(i)) \o FlatIssues(i + 1)

\* the position in the scan of the first raw issue with key
FirstSeen(key) ==
    CHOOSE j \in 1..Len(FlatIssues(1)) :
        /\ FindingKey(FlatIssues(1)[j]) = key
        /\ \A h \in 1..(j - 1) : FindingKey(FlatIssues(1)[h]) /= key

\* how many raw issues carry key
RawVotes(key) ==
    Cardinality({j \in 1..Len(FlatIssues(1)) : FindingKey(FlatIssues(1)[j]) = key})

OrderKeys == {FindingKey(x) : x \in OrderIssues}

\* the key an issue stands for: the raw issues of OrderIssues carry wordings
\* that belong to one key each
KeyOf(issue) ==
    CHOOSE key \in OrderKeys :
        \E x \in OrderIssues :
            FindingKey(x) = key /\ GetOr(x.description, "") = issue.description

\* C24: under the fallback rule the issues appear in the order in which their
\* keys were first seen while scanning the results in Dispatcher order, and
\* their ids are the consecutive numbers 1..n with no gaps, also when
\* discarded keys lie between reported ones.
C24_FirstSeenOrder ==
    pc = "filtered" =>
        /\ \A n \in 1..Len(issues) : issues[n].id = IssueIds[n]
        /\ \A n, m \in 1..Len(issues) :
               n < m => FirstSeen(KeyOf(issues[n])) < FirstSeen(KeyOf(issues[m]))

\* two keys were reported and a discarded key was first seen between them
C24_Witness ==
    /\ pc = "filtered"
    /\ Len(issues) = 2
    /\ \E key \in OrderKeys :
           /\ RawVotes(key) = 1
           /\ FirstSeen(KeyOf(issues[1])) < FirstSeen(key)
           /\ FirstSeen(key) < FirstSeen(KeyOf(issues[2]))

\* C25: for every key reported under the fallback rule, the description and
\* the suggested_fix of the issue are those of the first raw finding with
\* that key in scanning order, not those of a later finding.
C25_FirstFindingDetails ==
    pc = "filtered" =>
        \A n \in 1..Len(issues) :
            LET first == FlatIssues(1)[FirstSeen(KeyOf(issues[n]))] IN
            /\ issues[n].description = GetOr(first.description, "")
            /\ issues[n].suggested_fix = first.suggested_fix

\* issue carries the description, detected_by and suggested_fix of entry
CarriesEntry(issue, entry) ==
    /\ issue.description = GetOr(entry.description, "")
    /\ issue.detected_by = entry.detected_by
    /\ issue.suggested_fix = entry.suggested_fix

\* C26: on the primary path every issue built from a verdict entry, confirmed
\* or warning, carries that entry's description, detected_by and
\* suggested_fix unchanged.
C26_EntryFieldsKept ==
    pc = "parsed" =>
        LET confirmed == ParsedVerdict.confirmed_issues
            warnings == ParsedVerdict.warnings
        IN
        /\ \A k \in 1..Len(confirmed) : CarriesEntry(issues[k], confirmed[k])
        /\ \A k \in 1..Len(warnings) :
               CarriesEntry(issues[Len(confirmed) + k], warnings[k])

\* the position in all_findings of the agent called name
PositionOf(name) == CHOOSE i \in 1..Len(all_findings) : all_findings[i].model = name

\* detected_by of issue names, in Dispatcher order and at least twice, only
\* agents that returned Ok and reported key
NamesReportersOf(issue, key) ==
    /\ Len(issue.detected_by) >= 2
    /\ \A d \in 1..Len(issue.detected_by) :
           /\ \E i \in OkIndices : all_findings[i].model = issue.detected_by[d]
           /\ issue.detected_by[d] \in ReporterNames(key)
    /\ \A d, e \in 1..Len(issue.detected_by) :
           d < e => PositionOf(issue.detected_by[d]) <= PositionOf(issue.detected_by[e])

\* C29: under the fallback rule every name in an issue's detected_by is the
\* name of an agent that was dispatched, returned Ok and reported the
\* (type, location) key of that issue, the names stand in Dispatcher order,
\* and every issue has at least two entries in detected_by.
C29_DetectedByReporters ==
    pc = "filtered" =>
        \A n \in 1..Len(issues) :
            \E x \in FilterIssues :
                /\ issues[n].description = GetOr(x.description, "")
                /\ NamesReportersOf(issues[n], FindingKey(x))

\* the arbiter answered and _parse_arbiter_result raised on its answer
ParseFailed ==
    /\ arbiter_out /= NoResult
    /\ arbiter_out.kind = "result"
    /\ parse_arbiter_result(arbiter_out.result).raised

\* C30: the switch from the arbiter's verdict to the fallback is all or
\* nothing: when parsing the verdict fails at any entry, no issue built from
\* an earlier entry is in the report; its issues are exactly the output of
\* the fallback rule.
C30_AllOrNothing ==
    (Reported /\ ParseFailed)
    => report.issues = consensus_filter(all_findings).issues

\* the parse failed at a warning after a confirmed entry had been built, and
\* the report holds no issue
C30_Witness ==
    /\ Reported
    /\ ParseFailed
    /\ arbiter_out.result.json = "object"
    /\ Len(arbiter_out.result.confirmed_issues) >= 1
    /\ ~ParseItems(arbiter_out.result.confirmed_issues, 1, 1, Severity.ERROR, TRUE, <<>>).raised
    /\ report.issues = <<>>

\* C28: termination: when every agent call and the arbiter call eventually
\* returns, fails or times out, every run whose agent results are well-formed
\* eventually produces a report.
\* As no step of a run is ever undone, the run ends; it ends with a report
\* exactly when no state without a report is a dead end.
C28_Termination ==
    (~Reported /\ (Collected => WellFormed)) => ENABLED Next

=============================================================================
